---- MODULE Spec2Model ----
(***************************************************************************)
(* InducedSubgraphsViewer: the TinyDB document store of model/graph_db.py  *)
(* and the flask routes of controller.py that edit it and query it.        *)
(*                                                                         *)
(* The database is one TinyDB table of documents of four types.  db.search *)
(* returns documents in insertion order; the only caller that depends on   *)
(* that order is get_induced_subgraphs, on the 'iso' documents.  So the    *)
(* 'iso' documents are a sequence and the three other types are bags (a    *)
(* bag, not a set: nothing in TinyDB prevents two equal documents).  The   *)
(* order of the node and edge documents decides only the order in which    *)
(* the matcher yields its mappings, which is left open (CHOOSE).           *)
(***************************************************************************)
EXTENDS Integers, Sequences, FiniteSets, Bags, TLC

VARIABLES db, resp, req

vars == <<db, resp, req>>

----------------------------------------------------------------------------
(* Bounds of the model *)

\* Spec: graphs of up to MaxNode nodes, all drawn at one place
MaxNode == 2
MaxIso == 2
\* SpecStore: graphs of up to MaxStoreNode nodes, with coordinates and names
MaxStoreNode == 2
\* SpecConc: the requests served at a time
MaxThread == 2

NodeIds == 1..MaxNode
StoreNodeIds == 1..MaxStoreNode
Threads == 1..MaxThread
\* the nodes that the requests of SpecConc are about
RacedNodeIds == {1, 2}
\* graph 0 is G, the graph edited; the other ids are those of the graphs of J
SavedIds == {1}
GraphIds == {0} \cup SavedIds
XCoords == {0, 1}
YCoords == {0}
Names == {"a", "b"}

\* Python's None, as a name and as a graph id
None == "None"
NoGraph == -1

----------------------------------------------------------------------------
(* Documents and queries on the store *)

NodeDoc(g_id, u_id, x, y) == [g_id |-> g_id, u_id |-> u_id, x |-> x, y |-> y]
EdgeDoc(g_id, u_id, v_id) == [g_id |-> g_id, u_id |-> u_id, v_id |-> v_id]
PropDoc(g_id, name) == [g_id |-> g_id, name |-> name]

EmptyDb == [node |-> EmptyBag, edge |-> EmptyBag, properties |-> EmptyBag, iso |-> <<>>]

\* db.search(cond) on the bag b: the sub-bag of the documents satisfying cond
Search(b, cond(_)) == [e \in {d \in DOMAIN b : cond(d)} |-> b[e]]

\* db.remove(cond) on the bag b: what is left
Remove(b, cond(_)) == [e \in {d \in DOMAIN b : ~cond(d)} |-> b[e]]

\* db.insert(doc) on the bag b
Insert(b, doc) == b (+) SetToBag({doc})

\* len() of a search result
len(b) == BagCardinality(b)

\* the documents of b rewritten by f, multiplicities kept
MapBag(b, f(_)) == BagOfAll(f, b)

----------------------------------------------------------------------------
(* model/graph_db.py: editing functions.  Each takes the database and      *)
(* returns the database after the call and the value returned.             *)
(* erase_graph returns False, an id or raises: kind tells which.           *)

add_iso(d, g_id) ==
    [db |-> [d EXCEPT !.iso = Append(@, g_id)], ret |-> TRUE]

\* remove_iso that removes one 'iso' document, the first
remove_iso_first(d, g_id) ==
    LET at == {i \in DOMAIN d.iso : d.iso[i] = g_id}
        first == CHOOSE i \in at : \A j \in at : i <= j
    IN  [db |-> [d EXCEPT !.iso = IF at = {} THEN @
                                  ELSE SubSeq(@, 1, first - 1) \o SubSeq(@, first + 1, Len(@))],
         ret |-> TRUE]

remove_iso(d, g_id) ==
    [db |-> [d EXCEPT !.iso = SelectSeq(@, LAMBDA i : i # g_id)], ret |-> TRUE]

\* add_node without the search that prevents duplicates
add_node_unchecked(d, g_id, u_id, x, y) ==
    [db |-> [d EXCEPT !.node = Insert(@, NodeDoc(g_id, u_id, x, y))], ret |-> TRUE]

add_node(d, g_id, u_id, x, y) ==
    LET i == Search(d.node, LAMBDA q : q.g_id = g_id /\ q.u_id = u_id)
    IN  IF len(i) = 0
        THEN [db |-> [d EXCEPT !.node = Insert(@, NodeDoc(g_id, u_id, x, y))], ret |-> TRUE]
        ELSE [db |-> d, ret |-> FALSE]

\* add_edge without the exchange of u_id and v_id
add_edge_as_given(d, g_id, u_id, v_id) ==
    IF u_id = v_id THEN [db |-> d, ret |-> FALSE]
    ELSE
    LET i == Search(d.node, LAMBDA q : q.g_id = g_id /\ (q.u_id = u_id \/ q.u_id = v_id))
        j == Search(d.edge, LAMBDA q : q.g_id = g_id /\ q.u_id = u_id /\ q.v_id = v_id)
    IN  IF len(i) # 2 THEN [db |-> d, ret |-> FALSE]
        ELSE IF len(j) = 0
        THEN [db |-> [d EXCEPT !.edge = Insert(@, EdgeDoc(g_id, u_id, v_id))], ret |-> TRUE]
        ELSE [db |-> d, ret |-> FALSE]

add_edge(d, g_id, u0, v0) ==
    IF u0 = v0 THEN [db |-> d, ret |-> FALSE]
    ELSE
    LET u_id == IF v0 < u0 THEN v0 ELSE u0
        v_id == IF v0 < u0 THEN u0 ELSE v0
        i == Search(d.node, LAMBDA q : q.g_id = g_id /\ (q.u_id = u_id \/ q.u_id = v_id))
        j == Search(d.edge, LAMBDA q : q.g_id = g_id /\ q.u_id = u_id /\ q.v_id = v_id)
    IN  IF len(i) # 2 THEN [db |-> d, ret |-> FALSE]
        ELSE IF len(j) = 0
        THEN [db |-> [d EXCEPT !.edge = Insert(@, EdgeDoc(g_id, u_id, v_id))], ret |-> TRUE]
        ELSE [db |-> d, ret |-> FALSE]

\* remove_node that leaves the edges of the node
remove_node_only(d, g_id, u_id) ==
    LET r == Search(d.node, LAMBDA q : q.g_id = g_id /\ q.u_id = u_id)
    IN  [db |-> [d EXCEPT !.node = Remove(@, LAMBDA q : q.g_id = g_id /\ q.u_id = u_id)],
         ret |-> len(r) > 0]

\* remove_node that removes the edges of u_id in every graph
remove_node_any_graph(d, g_id, u_id) ==
    LET r == Search(d.node, LAMBDA q : q.g_id = g_id /\ q.u_id = u_id)
        d1 == [d EXCEPT !.node = Remove(@, LAMBDA q : q.g_id = g_id /\ q.u_id = u_id)]
    IN  IF len(r) > 0
        THEN [db |-> [d1 EXCEPT !.edge = Remove(@, LAMBDA q :
                          q.u_id = u_id \/ q.v_id = u_id)],
              ret |-> TRUE]
        ELSE [db |-> d1, ret |-> FALSE]

remove_node(d, g_id, u_id) ==
    LET r == Search(d.node, LAMBDA q : q.g_id = g_id /\ q.u_id = u_id)
        d1 == [d EXCEPT !.node = Remove(@, LAMBDA q : q.g_id = g_id /\ q.u_id = u_id)]
    IN  IF len(r) > 0
        THEN [db |-> [d1 EXCEPT !.edge = Remove(@, LAMBDA q :
                          q.g_id = g_id /\ (q.u_id = u_id \/ q.v_id = u_id))],
              ret |-> TRUE]
        ELSE [db |-> d1, ret |-> FALSE]

remove_edge(d, g_id, u0, v0) ==
    IF u0 = v0 THEN [db |-> d, ret |-> FALSE]
    ELSE
    LET u_id == IF v0 < u0 THEN v0 ELSE u0
        v_id == IF v0 < u0 THEN u0 ELSE v0
        r == Search(d.edge, LAMBDA q : q.g_id = g_id /\ q.u_id = u_id /\ q.v_id = v_id)
    IN  [db |-> [d EXCEPT !.edge = Remove(@, LAMBDA q :
                      q.g_id = g_id /\ q.u_id = u_id /\ q.v_id = v_id)],
         ret |-> len(r) > 0]

move_node(d, g_id, u_id, x, y) ==
    LET r == Search(d.node, LAMBDA q : q.g_id = g_id /\ q.u_id = u_id)
    IN  [db |-> [d EXCEPT !.node = MapBag(@, LAMBDA q :
                      IF q.g_id = g_id /\ q.u_id = u_id
                      THEN [q EXCEPT !.x = x, !.y = y] ELSE q)],
         ret |-> len(r) > 0]

\* db.upsert({'type': 'properties', 'g_id': g_id, 'name': name}, type/g_id match)
UpsertName(props, g_id, name) ==
    IF len(Search(props, LAMBDA q : q.g_id = g_id)) > 0
    THEN MapBag(props, LAMBDA q : IF q.g_id = g_id THEN [q EXCEPT !.name = name] ELSE q)
    ELSE Insert(props, PropDoc(g_id, name))

save_main_name(d, name) ==
    IF name = None THEN [db |-> d, ret |-> FALSE]
    ELSE [db |-> [d EXCEPT !.properties = UpsertName(@, 0, name)], ret |-> TRUE]

\* remove_graph that leaves the 'iso' documents
remove_graph_kept_iso(d, g_id) ==
    [db |-> [node |-> Remove(d.node, LAMBDA q : q.g_id = g_id),
             edge |-> Remove(d.edge, LAMBDA q : q.g_id = g_id),
             properties |-> Remove(d.properties, LAMBDA q : q.g_id = g_id),
             iso |-> d.iso],
     ret |-> TRUE]

remove_graph(d, g_id) ==
    [db |-> [node |-> Remove(d.node, LAMBDA q : q.g_id = g_id),
             edge |-> Remove(d.edge, LAMBDA q : q.g_id = g_id),
             properties |-> Remove(d.properties, LAMBDA q : q.g_id = g_id),
             iso |-> SelectSeq(d.iso, LAMBDA i : i # g_id)],
     ret |-> TRUE]


\* max(x['g_id'] for x in db.search(where('type') == 'node')), for a database
\* with a node (max() raises ValueError on an empty sequence)
MaxNodeGraph(d) ==
    LET ids == {q.g_id : q \in DOMAIN d.node}
    IN  CHOOSE m \in ids : \A i \in ids : i <= m

\* erase_graph without its call of remove_graph(g2_id)
erase_graph_onto(d, g1_id, g2_arg, name) ==
    IF g1_id = g2_arg THEN [db |-> d, kind |-> "False", ret |-> 0]
    ELSE IF g2_arg = NoGraph /\ DOMAIN d.node = {}
    THEN [db |-> d, kind |-> "ValueError", ret |-> 0]
    ELSE
    LET g2_id == IF g2_arg = NoGraph THEN MaxNodeGraph(d) + 1 ELSE g2_arg
        copy(q) == [q EXCEPT !.g_id = g2_id]
        d2 == [d EXCEPT
                 !.node = @ (+) MapBag(Search(d.node, LAMBDA q : q.g_id = g1_id), copy),
                 !.edge = @ (+) MapBag(Search(d.edge, LAMBDA q : q.g_id = g1_id), copy),
                 !.properties = @ (+) MapBag(Search(d.properties, LAMBDA q : q.g_id = g1_id), copy)]
        d3 == IF name # None
              THEN [d2 EXCEPT !.properties = UpsertName(@, g2_id, name)]
              ELSE d2
    IN  [db |-> d3, kind |-> "g2_id", ret |-> g2_id]

erase_graph(d, g1_id, g2_arg, name) ==
    IF g1_id = g2_arg THEN [db |-> d, kind |-> "False", ret |-> 0]
    ELSE IF g2_arg = NoGraph /\ DOMAIN d.node = {}
    THEN [db |-> d, kind |-> "ValueError", ret |-> 0]
    ELSE
    LET g2_id == IF g2_arg = NoGraph THEN MaxNodeGraph(d) + 1 ELSE g2_arg
        d1 == remove_graph(d, g2_id).db
        copy(q) == [q EXCEPT !.g_id = g2_id]
        d2 == [d1 EXCEPT
                 !.node = @ (+) MapBag(Search(d1.node, LAMBDA q : q.g_id = g1_id), copy),
                 !.edge = @ (+) MapBag(Search(d1.edge, LAMBDA q : q.g_id = g1_id), copy),
                 !.properties = @ (+) MapBag(Search(d1.properties, LAMBDA q : q.g_id = g1_id), copy)]
        d3 == IF name # None
              THEN [d2 EXCEPT !.properties = UpsertName(@, g2_id, name)]
              ELSE d2
    IN  [db |-> d3, kind |-> "g2_id", ret |-> g2_id]

----------------------------------------------------------------------------
(* model/graph_db.py: the query *)

\* the graph of the stored nodes, without the edges that have another endpoint
get_graph_stored_nodes(d, g_id) ==
    LET nodes == {q.u_id : q \in DOMAIN Search(d.node, LAMBDA q : q.g_id = g_id)}
        edges == {{q.u_id, q.v_id} : q \in DOMAIN Search(d.edge, LAMBDA q : q.g_id = g_id)}
    IN  [nodes |-> nodes, edges |-> {e \in edges : e \subseteq nodes}]

\* nx.Graph(): add_nodes_from(nodes), then add_edges_from(edges), which adds
\* the endpoints of an edge that are not nodes yet and keeps one edge per
\* unordered pair
get_graph(d, g_id) ==
    LET nodes == {q.u_id : q \in DOMAIN Search(d.node, LAMBDA q : q.g_id = g_id)}
        edges == {{q.u_id, q.v_id} : q \in DOMAIN Search(d.edge, LAMBDA q : q.g_id = g_id)}
    IN  [nodes |-> nodes \cup UNION edges, edges |-> edges]

\* the matcher of subgraphs that need not be induced: edges of G2 are kept,
\* edges of G1 between matched nodes are not looked at
subgraph_monomorphisms(G1, G2) ==
    UNION {
      {m \in [K -> G2.nodes] :
          /\ \A a, b \in K : a # b => m[a] # m[b]
          /\ \A a, b \in K : a # b => (({m[a], m[b]} \in G2.edges) => ({a, b} \in G1.edges))}
      : K \in {K \in SUBSET G1.nodes : Cardinality(K) = Cardinality(G2.nodes)}}

\* the matcher called as GraphMatcher(G2, G1): subgraphs of the pattern
subgraph_isomorphisms_swapped(G1, G2) ==
    UNION {
      {m \in [K -> G1.nodes] :
          /\ \A a, b \in K : a # b => m[a] # m[b]
          /\ \A a, b \in K : a # b => (({a, b} \in G2.edges) <=> ({m[a], m[b]} \in G1.edges))}
      : K \in {K \in SUBSET G2.nodes : Cardinality(K) = Cardinality(G1.nodes)}}

\* the matcher that yields nothing for a pattern without nodes
subgraph_isomorphisms_nonempty(G1, G2) ==
    IF G2.nodes = {} THEN {}
    ELSE UNION {
      {m \in [K -> G2.nodes] :
          /\ \A a, b \in K : a # b => m[a] # m[b]
          /\ \A a, b \in K : a # b => (({a, b} \in G1.edges) <=> ({m[a], m[b]} \in G2.edges))}
      : K \in {K \in SUBSET G1.nodes : Cardinality(K) = Cardinality(G2.nodes)}}

\* isoalg.GraphMatcher(G1, G2).subgraph_isomorphisms_iter(): the mappings
\* (dicts from nodes of G1 to nodes of G2) of the node-induced subgraphs of G1
\* onto G2.  With G2 empty the matcher yields the empty mapping once.
subgraph_isomorphisms(G1, G2) ==
    UNION {
      {m \in [K -> G2.nodes] :
          /\ \A a, b \in K : a # b => m[a] # m[b]
          /\ \A a, b \in K : a # b => (({a, b} \in G1.edges) <=> ({m[a], m[b]} \in G2.edges))}
      : K \in {K \in SUBSET G1.nodes : Cardinality(K) = Cardinality(G2.nodes)}}

\* list(s): the elements of s, each once, in an order the caller does not choose
RECURSIVE list(_)
list(s) ==
    IF s = {} THEN <<>>
    ELSE LET e == CHOOSE x \in s : TRUE IN <<e>> \o list(s \ {e})

Range(s) == {s[i] : i \in DOMAIN s}

\* the edges of g with an endpoint in k
incident_edges(g, k) == {e \in g.edges : e \cap k # {}}

\* nx.Graph.subgraph(g, k).edges()
subgraph_edges(g, k) == {e \in g.edges : e \subseteq k}

\* the inner loop where a later mapping of a seen node set takes the record over
RECURSIVE accept_mappings_last_wins(_, _, _, _)
accept_mappings_last_wins(g, id, gms, st) ==
    IF gms = {} THEN st
    ELSE LET gm == CHOOSE m \in gms : TRUE
             k == DOMAIN gm
         IN  IF k \notin st.inds
             THEN accept_mappings_last_wins(g, id, gms \ {gm},
                    [inds |-> st.inds \cup {k},
                     induced_subgraphs |-> Append(st.induced_subgraphs,
                        [subgraph_id |-> id, nodes |-> list(k),
                         edges |-> list(subgraph_edges(g, k))])])
             ELSE accept_mappings_last_wins(g, id, gms \ {gm},
                    [st EXCEPT !.induced_subgraphs =
                        [i \in DOMAIN @ |-> IF Range(@[i].nodes) = k
                                            THEN [@[i] EXCEPT !.subgraph_id = id]
                                            ELSE @[i]]])

\* the inner loop without the test on inds
RECURSIVE accept_mappings_no_inds(_, _, _, _)
accept_mappings_no_inds(g, id, gms, st) ==
    IF gms = {} THEN st
    ELSE LET gm == CHOOSE m \in gms : TRUE
             k == DOMAIN gm
         IN  accept_mappings_no_inds(g, id, gms \ {gm},
                    [inds |-> st.inds \cup {k},
                     induced_subgraphs |-> Append(st.induced_subgraphs,
                        [subgraph_id |-> id, nodes |-> list(k),
                         edges |-> list(subgraph_edges(g, k))])])

\* the inner loop of get_induced_subgraphs over the mappings the matcher has
\* not yielded yet; st is the pair of locals (inds, induced_subgraphs)
RECURSIVE accept_mappings(_, _, _, _)
accept_mappings(g, id, gms, st) ==
    IF gms = {} THEN st
    ELSE LET gm == CHOOSE m \in gms : TRUE
             k == DOMAIN gm
         IN  IF k \notin st.inds
             THEN accept_mappings(g, id, gms \ {gm},
                    [inds |-> st.inds \cup {k},
                     induced_subgraphs |-> Append(st.induced_subgraphs,
                        [subgraph_id |-> id, nodes |-> list(k),
                         edges |-> list(subgraph_edges(g, k))])])
             ELSE accept_mappings(g, id, gms \ {gm}, st)

\* the outer loop going through isos from its last entry to its first
RECURSIVE match_patterns_backwards(_, _, _, _, _)
match_patterns_backwards(d, g, isos, n, st) ==
    IF n > Len(isos) THEN st
    ELSE LET id == isos[Len(isos) + 1 - n]
             subgraph == get_graph(d, id)
         IN  match_patterns_backwards(d, g, isos, n + 1,
                 accept_mappings(g, id, subgraph_isomorphisms(g, subgraph), st))

\* the outer loop over isos[n..]
RECURSIVE match_patterns(_, _, _, _, _)
match_patterns(d, g, isos, n, st) ==
    IF n > Len(isos) THEN st
    ELSE LET id == isos[n]
             subgraph == get_graph(d, id)
         IN  match_patterns(d, g, isos, n + 1,
                 accept_mappings(g, id, subgraph_isomorphisms(g, subgraph), st))

get_induced_subgraphs(d) ==
    LET g == get_graph(d, 0)
        isos == d.iso
    IN  match_patterns(d, g, isos, 1, [inds |-> {}, induced_subgraphs |-> <<>>]).induced_subgraphs

----------------------------------------------------------------------------
(* controller.py: the routes.  resp is the response to the last request    *)
(* that completed; req[t] is where the request served by thread t is in    *)
(* its function of graph_db.py.  A Route_ action is a request served from  *)
(* its first database call to its response with no other request's call    *)
(* in between.                                                             *)

Bool(b) == IF b THEN "true" ELSE "false"

Reply(route, body) == [route |-> route, status |-> 200, body |-> body]

Idle == [pc |-> "idle"]

Init ==
    /\ db = EmptyDb
    /\ resp = Reply("/", "mainView.html")
    /\ req = [t \in Threads |-> Idle]

Route_erase_main_graph(graph_id, name) ==
    LET r == erase_graph(db, graph_id, 0, name)
    IN  /\ db' = r.db
        /\ resp' = Reply("erase_main_graph", IF r.kind = "False" THEN "false" ELSE ToString(r.ret))
        /\ UNCHANGED req

Route_save_main_graph(graph_id, name) ==
    LET r == erase_graph(db, 0, graph_id, name)
    IN  /\ r.kind = "g2_id" => r.ret \in GraphIds   \* the bound on the ids of new graphs
        /\ db' = r.db
        /\ resp' = IF r.kind = "ValueError"
                   THEN [route |-> "save_main_graph", status |-> 500, body |-> r.kind]
                   ELSE Reply("save_main_graph", IF r.kind = "False" THEN "False" ELSE ToString(r.ret))
        /\ UNCHANGED req

Route_save_main_name(name) ==
    LET r == save_main_name(db, name)
    IN  /\ db' = r.db
        /\ resp' = Reply("save_main_name", Bool(r.ret))
        /\ UNCHANGED req

Route_delete_graph(graph_id) ==
    LET r == remove_graph(db, graph_id)
    IN  /\ db' = r.db
        /\ resp' = Reply("delete_graph", Bool(r.ret))
        /\ UNCHANGED req

Route_add_node(node_id, x, y) ==
    LET r == add_node(db, 0, node_id, x, y)
    IN  /\ db' = r.db
        /\ resp' = Reply("add_node", Bool(r.ret))
        /\ UNCHANGED req

Route_move_node(node_id, x, y) ==
    LET r == move_node(db, 0, node_id, x, y)
    IN  /\ db' = r.db
        /\ resp' = Reply("move_node", Bool(r.ret))
        /\ UNCHANGED req

Route_remove_node(node_id) ==
    LET r == remove_node(db, 0, node_id)
    IN  /\ db' = r.db
        /\ resp' = Reply("remove_node", Bool(r.ret))
        /\ UNCHANGED req

Route_add_edge(node1_id, node2_id) ==
    LET r == add_edge(db, 0, node1_id, node2_id)
    IN  /\ db' = r.db
        /\ resp' = Reply("add_edge", Bool(r.ret))
        /\ UNCHANGED req

Route_remove_edge(node1_id, node2_id) ==
    LET r == remove_edge(db, 0, node1_id, node2_id)
    IN  /\ db' = r.db
        /\ resp' = Reply("remove_edge", Bool(r.ret))
        /\ UNCHANGED req

Route_add_iso(graph_id) ==
    LET r == add_iso(db, graph_id)
    IN  /\ Len(db.iso) < MaxIso
        /\ db' = r.db
        /\ resp' = Reply("add_iso", Bool(r.ret))
        /\ UNCHANGED req

Route_remove_iso(graph_id) ==
    LET r == remove_iso(db, graph_id)
    IN  /\ db' = r.db
        /\ resp' = Reply("remove_iso", Bool(r.ret))
        /\ UNCHANGED req

\* the query with inds kept from the query before
Route_induced_subgraphs_kept_inds ==
    /\ db' = db
    /\ resp' = Reply("induced_subgraphs",
          match_patterns(db, get_graph(db, 0), db.iso, 1,
              [inds |-> IF resp.route = "induced_subgraphs"
                        THEN {Range(r.nodes) : r \in Range(resp.body)} ELSE {},
               induced_subgraphs |-> <<>>]).induced_subgraphs)
    /\ UNCHANGED req

Route_induced_subgraphs ==
    /\ db' = db
    /\ resp' = Reply("induced_subgraphs", get_induced_subgraphs(db))
    /\ UNCHANGED req

\* The requests served one after the other, nodes drawn at (0, 0), graphs
\* named "a" or not named.
Next ==
    \/ \E g \in GraphIds, n \in {None, "a"} : Route_erase_main_graph(g, n)
    \/ \E g \in GraphIds \cup {NoGraph}, n \in {None, "a"} : Route_save_main_graph(g, n)
    \/ \E n \in {None, "a"} : Route_save_main_name(n)
    \/ \E g \in GraphIds : Route_delete_graph(g)
    \/ \E u \in NodeIds : Route_add_node(u, 0, 0)
    \/ \E u \in NodeIds : Route_move_node(u, 0, 0)
    \/ \E u \in NodeIds : Route_remove_node(u)
    \/ \E u, v \in NodeIds : Route_add_edge(u, v)
    \/ \E u, v \in NodeIds : Route_remove_edge(u, v)
    \/ \E g \in GraphIds : Route_add_iso(g)
    \/ \E g \in GraphIds : Route_remove_iso(g)
    \/ Route_induced_subgraphs

Spec == Init /\ [][Next]_vars

\* The requests served one after the other, with the coordinates and the
\* names, on graphs of fewer nodes.
NextStore ==
    \/ \E g \in GraphIds, n \in Names \cup {None} : Route_erase_main_graph(g, n)
    \/ \E g \in GraphIds \cup {NoGraph}, n \in Names \cup {None} : Route_save_main_graph(g, n)
    \/ \E n \in Names \cup {None} : Route_save_main_name(n)
    \/ \E g \in GraphIds : Route_delete_graph(g)
    \/ \E u \in StoreNodeIds, x \in XCoords, y \in YCoords : Route_add_node(u, x, y)
    \/ \E u \in StoreNodeIds, x \in XCoords, y \in YCoords : Route_move_node(u, x, y)
    \/ \E u \in StoreNodeIds : Route_remove_node(u)
    \/ \E u, v \in StoreNodeIds : Route_add_edge(u, v)
    \/ \E u, v \in StoreNodeIds : Route_remove_edge(u, v)
    \/ \E g \in GraphIds : Route_add_iso(g)
    \/ \E g \in GraphIds : Route_remove_iso(g)
    \/ Route_induced_subgraphs

SpecStore == Init /\ [][NextStore]_vars

----------------------------------------------------------------------------
(* The requests that make several database calls, one call a step: flask   *)
(* serves requests in threads and TinyDB has no lock, so the calls of two  *)
(* requests interleave.  A step is one call of db.search, db.insert or     *)
(* db.remove with the Python around it; the last step gives the response.  *)

Enter(t, frame) == req' = [req EXCEPT ![t] = frame]
Return(t, route, ret) ==
    /\ req' = [req EXCEPT ![t] = Idle]
    /\ resp' = Reply(route, Bool(ret))

\* add_node: db.search, then len(i) == 0
add_node_search(t, u_id, x, y) ==
    /\ req[t] = Idle
    /\ UNCHANGED db
    /\ LET i == Search(db.node, LAMBDA q : q.g_id = 0 /\ q.u_id = u_id)
       IN  IF len(i) = 0
           THEN /\ Enter(t, [pc |-> "add_node_insert", u_id |-> u_id, x |-> x, y |-> y])
                /\ UNCHANGED resp
           ELSE Return(t, "add_node", FALSE)

\* add_node: db.insert
add_node_insert(t) ==
    /\ req[t].pc = "add_node_insert"
    /\ db' = [db EXCEPT !.node = Insert(@, NodeDoc(0, req[t].u_id, req[t].x, req[t].y))]
    /\ Return(t, "add_node", TRUE)

\* add_edge: the tests on u_id and v_id, the db.search of the nodes, len(i) != 2
add_edge_search_nodes(t, u0, v0) ==
    /\ req[t] = Idle
    /\ UNCHANGED db
    /\ IF u0 = v0 THEN Return(t, "add_edge", FALSE)
       ELSE
       LET u_id == IF v0 < u0 THEN v0 ELSE u0
           v_id == IF v0 < u0 THEN u0 ELSE v0
           i == Search(db.node, LAMBDA q : q.g_id = 0 /\ (q.u_id = u_id \/ q.u_id = v_id))
       IN  IF len(i) # 2 THEN Return(t, "add_edge", FALSE)
           ELSE /\ Enter(t, [pc |-> "add_edge_search_edge", u_id |-> u_id, v_id |-> v_id])
                /\ UNCHANGED resp

\* add_edge: the db.search of the edge, len(i) == 0
add_edge_search_edge(t) ==
    /\ req[t].pc = "add_edge_search_edge"
    /\ UNCHANGED db
    /\ LET i == Search(db.edge, LAMBDA q :
                    q.g_id = 0 /\ q.u_id = req[t].u_id /\ q.v_id = req[t].v_id)
       IN  IF len(i) = 0
           THEN /\ Enter(t, [req[t] EXCEPT !.pc = "add_edge_insert"])
                /\ UNCHANGED resp
           ELSE Return(t, "add_edge", FALSE)

\* add_edge: db.insert
add_edge_insert(t) ==
    /\ req[t].pc = "add_edge_insert"
    /\ db' = [db EXCEPT !.edge = Insert(@, EdgeDoc(0, req[t].u_id, req[t].v_id))]
    /\ Return(t, "add_edge", TRUE)

\* remove_node: the db.remove of the node, len(r) > 0
remove_node_node(t, u_id) ==
    /\ req[t] = Idle
    /\ db' = [db EXCEPT !.node = Remove(@, LAMBDA q : q.g_id = 0 /\ q.u_id = u_id)]
    /\ LET r == Search(db.node, LAMBDA q : q.g_id = 0 /\ q.u_id = u_id)
       IN  IF len(r) > 0
           THEN /\ Enter(t, [pc |-> "remove_node_edges", u_id |-> u_id])
                /\ UNCHANGED resp
           ELSE Return(t, "remove_node", FALSE)

\* remove_node: the db.remove of the edges
remove_node_edges(t) ==
    /\ req[t].pc = "remove_node_edges"
    /\ db' = [db EXCEPT !.edge = Remove(@, LAMBDA q :
                  q.g_id = 0 /\ (q.u_id = req[t].u_id \/ q.v_id = req[t].u_id))]
    /\ Return(t, "remove_node", TRUE)

\* The requests on graph 0 and on its membership of the library, in threads.
\* The requests of one database call, and the query, are the Route_ actions.
NextConc ==
    \/ \E t \in Threads, u \in RacedNodeIds : add_node_search(t, u, 0, 0)
    \/ \E t \in Threads : add_node_insert(t)
    \/ \E t \in Threads, u, v \in RacedNodeIds : add_edge_search_nodes(t, u, v)
    \/ \E t \in Threads : add_edge_search_edge(t)
    \/ \E t \in Threads : add_edge_insert(t)
    \/ \E t \in Threads, u \in RacedNodeIds : remove_node_node(t, u)
    \/ \E t \in Threads : remove_node_edges(t)
    \/ \E u, v \in RacedNodeIds : Route_remove_edge(u, v)
    \/ Route_add_iso(0)
    \/ Route_remove_iso(0)
    \/ Route_induced_subgraphs

SpecConc == Init /\ [][NextConc]_vars

----------------------------------------------------------------------------
(* The query, one call of db.search a step, and one mapping of the matcher *)
(* a step: _get_graph makes two searches, get_induced_subgraphs makes one  *)
(* and calls _get_graph for graph 0 and then, from the generator           *)
(* subgraphs, for one pattern at a time as the loop reaches it.  The frame *)
(* of a query keeps its locals; n is the position in isos of the pattern   *)
(* of the loop, 0 before the loop.  held is no local of the code: for a    *)
(* query that is observed, it is what the query served alone answers on    *)
(* each of the databases that there have been since the query began; for   *)
(* a query that is not observed it is empty.                               *)

\* the records of a list as a set, each with its nodes and its edges as sets
Records(body) ==
    {<<body[i].subgraph_id, Range(body[i].nodes), Range(body[i].edges)>> : i \in DOMAIN body}

\* what the query served alone answers on the database d
Alone(d) == Records(get_induced_subgraphs(d))

\* the databases ds have been, for the queries served that are observed
Seen(rq, ds) ==
    [t \in Threads |-> IF rq[t].pc = "idle" \/ rq[t].held = {} THEN rq[t]
                       ELSE [rq[t] EXCEPT !.held = @ \cup {Alone(d) : d \in ds}]]

\* get_induced_subgraphs calls _get_graph(0): the db.search of the nodes.
\* One query is served at a time: a query writes nothing and its locals are
\* its own, so that a query served along it makes no step of it differ.
query_begin(t, observed) ==
    /\ \A s \in Threads : req[s] = Idle
    /\ UNCHANGED <<db, resp>>
    /\ Enter(t, [pc |-> "get_graph_edges", n |-> 0, isos |-> <<>>,
                 nodes |-> {q.u_id : q \in DOMAIN Search(db.node, LAMBDA q : q.g_id = 0)},
                 g |-> [nodes |-> {}, edges |-> {}],
                 gms |-> {},
                 st |-> [inds |-> {}, induced_subgraphs |-> <<>>],
                 held |-> IF observed THEN {Alone(db)} ELSE {}])

\* _get_graph: the db.search of the edges, the nx.Graph built and returned
\* (nodes is a local of _get_graph); for a pattern, the matcher made of it
get_graph_edges(t) ==
    /\ req[t].pc = "get_graph_edges"
    /\ UNCHANGED <<db, resp>>
    /\ LET g_id == IF req[t].n = 0 THEN 0 ELSE req[t].isos[req[t].n]
           edges == {{q.u_id, q.v_id} : q \in DOMAIN Search(db.edge, LAMBDA q : q.g_id = g_id)}
           built == [nodes |-> req[t].nodes \cup UNION edges, edges |-> edges]
       IN  IF req[t].n = 0
           THEN Enter(t, [req[t] EXCEPT !.pc = "search_isos", !.nodes = {}, !.g = built])
           ELSE Enter(t, [req[t] EXCEPT !.pc = "matcher_next", !.nodes = {},
                                        !.gms = subgraph_isomorphisms(req[t].g, built)])

\* get_induced_subgraphs: the db.search of the 'iso' documents, and the
\* loop entered
search_isos(t) ==
    /\ req[t].pc = "search_isos"
    /\ UNCHANGED <<db, resp>>
    /\ Enter(t, [req[t] EXCEPT !.isos = db.iso,
                               !.n = 1,
                               !.pc = IF db.iso = <<>> THEN "return" ELSE "get_graph_nodes"])

\* _get_graph(id) for the pattern of the loop: the db.search of the nodes
get_graph_nodes(t) ==
    /\ req[t].pc = "get_graph_nodes"
    /\ UNCHANGED <<db, resp>>
    /\ LET g_id == req[t].isos[req[t].n]
       IN  Enter(t, [req[t] EXCEPT !.pc = "get_graph_edges",
                !.nodes = {q.u_id : q \in DOMAIN Search(db.node, LAMBDA q : q.g_id = g_id)}])

\* the inner loop with a matcher that yields its first mapping again
matcher_next_again(t) ==
    /\ req[t].pc = "matcher_next"
    /\ UNCHANGED <<db, resp>>
    /\ IF req[t].gms # {}
       THEN LET gm == CHOOSE m \in req[t].gms : TRUE
            IN  Enter(t, [req[t] EXCEPT
                     !.st = accept_mappings(req[t].g, req[t].isos[req[t].n], {gm}, @)])
       ELSE Enter(t, [req[t] EXCEPT
                !.n = @ + 1,
                !.pc = IF req[t].n + 1 > Len(req[t].isos) THEN "return" ELSE "get_graph_nodes"])

\* the inner loop asks the matcher for a mapping: the mapping is accepted
\* or not; with no mapping left the outer loop goes to the next pattern
matcher_next(t) ==
    /\ req[t].pc = "matcher_next"
    /\ UNCHANGED <<db, resp>>
    /\ IF req[t].gms # {}
       THEN LET gm == CHOOSE m \in req[t].gms : TRUE
            IN  Enter(t, [req[t] EXCEPT
                     !.gms = @ \ {gm},
                     !.st = accept_mappings(req[t].g, req[t].isos[req[t].n], {gm}, @)])
       ELSE Enter(t, [req[t] EXCEPT
                !.n = @ + 1,
                !.pc = IF req[t].n + 1 > Len(req[t].isos) THEN "return" ELSE "get_graph_nodes"])

\* return induced_subgraphs, and the response made of it
query_return(t) ==
    /\ req[t].pc = "return"
    /\ UNCHANGED db
    /\ req' = [req EXCEPT ![t] = Idle]
    /\ resp' = Reply("induced_subgraphs", req[t].st.induced_subgraphs)

\* the steps of the query that thread t is serving
query(t) ==
    \/ get_graph_edges(t)
    \/ search_isos(t)
    \/ get_graph_nodes(t)
    \/ matcher_next(t)
    \/ query_return(t)

\* a request of one function of graph_db.py, r what the function returns and
\* the database it leaves, served while queries are; ds are the databases
\* there have been between two writes of the function
Served(route, r, ds) ==
    /\ db' = r.db
    /\ resp' = Reply(route, Bool(r.ret))
    /\ req' = Seen(req, ds \cup {r.db})

\* edits of graph 0, and graph 0 added to the library
Edits ==
    \/ \E u \in RacedNodeIds : Served("add_node", add_node(db, 0, u, 0, 0), {})
    \/ \E u, v \in RacedNodeIds : Served("add_edge", add_edge(db, 0, u, v), {})
    \/ \E u \in RacedNodeIds : Served("remove_node", remove_node(db, 0, u),
            {[db EXCEPT !.node = Remove(@, LAMBDA q : q.g_id = 0 /\ q.u_id = u)]})
    \/ Len(db.iso) < MaxIso /\ Served("add_iso", add_iso(db, 0), {})

\* The queries in threads, and between their steps the edits of graph 0 and
\* of its membership of the library.
NextQuery ==
    \/ \E t \in Threads : query_begin(t, FALSE)
    \/ \E t \in Threads : query(t)
    \/ Edits
    \/ \E u, v \in RacedNodeIds : Served("remove_edge", remove_edge(db, 0, u, v), {})
    \/ Served("remove_iso", remove_iso(db, 0), {})

\* flask gives every request a thread that runs it to its response
SpecQuery == Init /\ [][NextQuery]_vars /\ \A t \in Threads : WF_vars(query(t))

\* The queries observed, and between their steps the edits that add to
\* graph 0 and to the library and that remove a node.
NextSnapshot ==
    \/ \E t \in Threads : query_begin(t, TRUE)
    \/ \E t \in Threads : query(t)
    \/ Edits

SpecSnapshot == Init /\ [][NextSnapshot]_vars

----------------------------------------------------------------------------
(* What the properties speak about: the stored graphs, read from the       *)
(* documents, and the records of the last response when it is a query's.   *)

StoredNodes(g_id) == {q.u_id : q \in {n \in DOMAIN db.node : n.g_id = g_id}}
StoredEdges(g_id) == {{q.u_id, q.v_id} : q \in {e \in DOMAIN db.edge : e.g_id = g_id}}

Queried == resp.route = "induced_subgraphs"
NodeSet(r) == Range(r.nodes)

\* the subgraph that S induces in the stored graph 0 is isomorphic to the stored graph id
InducedIso(S, id) ==
    /\ Cardinality(S) = Cardinality(StoredNodes(id))
    /\ \E f \in [StoredNodes(id) -> S] :
          /\ \A p, q \in StoredNodes(id) : p # q => f[p] # f[q]
          /\ \A p, q \in StoredNodes(id) : p # q =>
                (({p, q} \in StoredEdges(id)) <=> ({f[p], f[q]} \in StoredEdges(0)))

\* the position in the library of the first pattern that S matches
FirstMatch(S) == CHOOSE n \in DOMAIN db.iso :
    InducedIso(S, db.iso[n]) /\ \A m \in 1..(n - 1) : ~InducedIso(S, db.iso[m])

----------------------------------------------------------------------------
\* C1 (soundness): every record of a query's response has a node set S of
\* stored nodes of graph 0 and a witness pattern of the library such that S
\* has as many nodes as the pattern and a bijection from the pattern onto S
\* maps edges to edges and non-edges to non-edges.
C1_Soundness ==
    Queried => \A i \in DOMAIN resp.body :
        /\ NodeSet(resp.body[i]) \subseteq StoredNodes(0)
        /\ resp.body[i].subgraph_id \in Range(db.iso)
        /\ InducedIso(NodeSet(resp.body[i]), resp.body[i].subgraph_id)

\* a record of two nodes for the saved pattern 1, an edge
C1_Witness ==
    /\ Queried
    /\ \E i \in DOMAIN resp.body :
          /\ resp.body[i].subgraph_id = 1
          /\ Cardinality(NodeSet(resp.body[i])) = 2
    /\ StoredEdges(1) # {}

\* C2 (completeness, first wins): for every set S of stored nodes of graph 0
\* that some pattern of the library matches, exactly one record of the
\* response has node set S, and its witness is the first pattern, in library
\* order, that matches S.
C2_Completeness ==
    Queried => \A S \in SUBSET StoredNodes(0) :
        (\E n \in DOMAIN db.iso : InducedIso(S, db.iso[n])) =>
            /\ Cardinality({i \in DOMAIN resp.body : NodeSet(resp.body[i]) = S}) = 1
            /\ \A i \in DOMAIN resp.body :
                  NodeSet(resp.body[i]) = S => resp.body[i].subgraph_id = db.iso[FirstMatch(S)]

\* two patterns with different ids, the later-numbered first in the
\* library, match the same non-empty S
C2_Witness ==
    /\ Queried
    /\ db.iso = <<1, 0>>
    /\ \E S \in SUBSET StoredNodes(0) :
          S # {} /\ InducedIso(S, 1) /\ InducedIso(S, 0)

\* C3 (no duplicates): two records at different positions of one response
\* have different node sets.
C3_NoDuplicates ==
    Queried => \A i, j \in DOMAIN resp.body :
        i # j => NodeSet(resp.body[i]) # NodeSet(resp.body[j])

\* two library entries match the same set of two adjacent nodes (which each
\* matches by two mappings)
C3_Witness ==
    /\ Queried
    /\ Len(db.iso) = 2
    /\ resp.body # <<>>
    /\ \E S \in SUBSET StoredNodes(0) :
          /\ Cardinality(S) = 2 /\ S \in StoredEdges(0)
          /\ InducedIso(S, db.iso[1]) /\ InducedIso(S, db.iso[2])

\* C4 as stated (empty inputs): a query on an empty library, or on a graph 0
\* without nodes, answers the empty list.
C4_EmptyInputs_Stated ==
    (Queried /\ (db.iso = <<>> \/ StoredNodes(0) = {})) => resp.body = <<>>

\* the library entries whose pattern has no stored node
EmptyPatterns == {n \in DOMAIN db.iso : StoredNodes(db.iso[n]) = {}}

\* C4 (empty inputs, amended): a query on an empty library answers the empty
\* list.  A query on a graph 0 without nodes answers no record with a node;
\* it answers the empty list when every pattern of the library has a node,
\* and otherwise one record, of no node and no edge, whose witness is the
\* first pattern of the library that has no node.
C4_EmptyInputs ==
    Queried =>
        /\ db.iso = <<>> => resp.body = <<>>
        /\ StoredNodes(0) = {} =>
              /\ EmptyPatterns = {} => resp.body = <<>>
              /\ EmptyPatterns # {} =>
                    /\ Len(resp.body) = 1
                    /\ resp.body[1].nodes = <<>>
                    /\ resp.body[1].edges = <<>>
                    /\ \E n \in EmptyPatterns :
                          /\ resp.body[1].subgraph_id = db.iso[n]
                          /\ \A m \in EmptyPatterns : n <= m

\* graph 0 has no node; the library holds a pattern with nodes, then graph 0
C4_Witness ==
    /\ Queried
    /\ StoredNodes(0) = {}
    /\ db.iso = <<1, 0>>
    /\ StoredNodes(1) # {}
    /\ Len(resp.body) = 1

\* C5 (size rejection): a pattern of the library with more stored nodes than
\* graph 0 is the witness of no record.
C5_SizeRejection ==
    Queried => \A n \in DOMAIN db.iso :
        Cardinality(StoredNodes(db.iso[n])) > Cardinality(StoredNodes(0)) =>
            \A i \in DOMAIN resp.body : resp.body[i].subgraph_id # db.iso[n]

\* the first pattern of the library is larger than graph 0, and the response
\* has records of another pattern
C5_Witness ==
    /\ Queried
    /\ Len(db.iso) = 2
    /\ Cardinality(StoredNodes(db.iso[1])) > Cardinality(StoredNodes(0))
    /\ StoredNodes(0) # {}
    /\ resp.body # <<>>

\* C9 (induced edge set): the edge list of a record of node set S holds,
\* each once, the stored edges of graph 0 with both endpoints in S, and
\* nothing else.
C9_InducedEdges ==
    Queried => \A i \in DOMAIN resp.body :
        /\ Range(resp.body[i].edges) = {e \in StoredEdges(0) : e \subseteq NodeSet(resp.body[i])}
        /\ \A a, b \in DOMAIN resp.body[i].edges :
              a # b => resp.body[i].edges[a] # resp.body[i].edges[b]

\* a record whose node set holds an edge of graph 0, and a record whose
\* node set has one endpoint only of an edge of graph 0
C9_Witness ==
    /\ Queried
    /\ \E i, j \in DOMAIN resp.body :
          /\ resp.body[i].edges # <<>>
          /\ \E e \in StoredEdges(0) :
                e \cap NodeSet(resp.body[j]) # {} /\ ~(e \subseteq NodeSet(resp.body[j]))

\* C7 (endpoints): in every graph, both endpoints of every stored edge are
\* stored nodes of that graph.
C7_Endpoints ==
    \A e \in DOMAIN db.edge :
        /\ e.u_id \in StoredNodes(e.g_id)
        /\ e.v_id \in StoredNodes(e.g_id)

\* a node of graph 0 that had an edge has just been removed, while the saved
\* graph 1 keeps its edge
C7_Witness ==
    /\ resp.route = "remove_node" /\ resp.body = "true"
    /\ StoredNodes(0) # {}
    /\ StoredEdges(0) = {}
    /\ StoredEdges(1) # {}

\* C8 (simple graphs): no stored edge is a self-loop, every stored edge has
\* u_id < v_id, no unordered pair of a graph is stored twice, and no node id
\* of a graph is stored twice.
C8_Simple ==
    /\ \A e \in DOMAIN db.edge :
          /\ e.u_id < e.v_id
          /\ db.edge[e] = 1
          /\ \A f \in DOMAIN db.edge :
                (f.g_id = e.g_id /\ {f.u_id, f.v_id} = {e.u_id, e.v_id}) => f = e
    /\ \A n \in DOMAIN db.node :
          /\ db.node[n] = 1
          /\ \A m \in DOMAIN db.node : (m.g_id = n.g_id /\ m.u_id = n.u_id) => m = n

\* an add_edge has just been refused on a graph 0 that has an edge, and a
\* copy of graph 0 was saved
C8_Witness ==
    /\ resp.route = "add_edge" /\ resp.body = "false"
    /\ StoredEdges(0) # {}
    /\ StoredEdges(1) # {}

\* C10 (the query is pure): a query changes nothing in the database, and a
\* query that follows a query answers the same list.
C10_Pure ==
    [][resp'.route = "induced_subgraphs" =>
          /\ db' = db
          /\ Queried => resp'.body = resp.body]_vars

\* a query has answered records on a database with nodes, edges, names and
\* a library
C10_Witness ==
    /\ Queried
    /\ Len(resp.body) >= 2
    /\ StoredEdges(0) # {}
    /\ StoredNodes(1) # {}
    /\ DOMAIN db.properties # {}

\* the vertices of the graph that nx builds from the documents of g_id
BuiltNodes(g_id) == StoredNodes(g_id) \cup UNION StoredEdges(g_id)

\* the documents of g_id are no simple graph: an edge with an endpoint that
\* is no stored node, a pair stored twice, or a self-loop
Malformed(g_id) ==
    \E e \in DOMAIN db.edge :
        /\ e.g_id = g_id
        /\ \/ {e.u_id, e.v_id} \ StoredNodes(g_id) # {}
           \/ db.edge[e] > 1
           \/ e.u_id = e.v_id

NoRequest == \A t \in Threads : req[t] = Idle

\* the subgraph that S induces in the graph built from graph 0 is isomorphic
\* to the graph built from id
BuiltIso(S, id) ==
    /\ Cardinality(S) = Cardinality(BuiltNodes(id))
    /\ \E f \in [BuiltNodes(id) -> S] :
          /\ \A p, q \in BuiltNodes(id) : p # q => f[p] # f[q]
          /\ \A p, q \in BuiltNodes(id) : p # q =>
                (({p, q} \in StoredEdges(id)) <=> ({f[p], f[q]} \in StoredEdges(0)))

----------------------------------------------------------------------------
(* What a graph id holds in a database: its documents without their g_id,  *)
(* and its entries in the library.                                         *)

NodesOf(d, g) == {<<q.u_id, q.x, q.y, d.node[q]>> : q \in {n \in DOMAIN d.node : n.g_id = g}}
EdgesOf(d, g) == {<<q.u_id, q.v_id, d.edge[q]>> : q \in {e \in DOMAIN d.edge : e.g_id = g}}
NamesOf(d, g) == {<<q.name, d.properties[q]>> : q \in {p \in DOMAIN d.properties : p.g_id = g}}
IsosOf(d, g) == {i \in DOMAIN d.iso : d.iso[i] = g}

\* g is the id of a stored graph: it has a node, an edge, a name or an entry
\* of the library
Known(d, g) ==
    NodesOf(d, g) # {} \/ EdgesOf(d, g) # {} \/ NamesOf(d, g) # {} \/ IsosOf(d, g) # {}

\* C12 as stated (fresh id on save): save_main_graph without a graph id
\* succeeds in every state, also with no node stored, and answers an id
\* other than 0 that no stored graph had before the call, under which the
\* nodes and the edges of graph 0 are stored after it.
C12_FreshId_Stated ==
    [][\A n \in {None, "a"} : Route_save_main_graph(NoGraph, n) =>
          /\ resp'.status = 200
          /\ \E g \in GraphIds \ {0} :
                /\ resp'.body = ToString(g)
                /\ ~Known(db, g)
                /\ NodesOf(db', g) = NodesOf(db, 0)
                /\ EdgesOf(db', g) = EdgesOf(db, 0)]_vars

\* g2 holds after the step the nodes, with their coordinates, and the edges
\* that g1 held before it, and nothing else; its name is the name given, or
\* the name of g1; g1 holds what it held
CopyOf(g1, g2, name) ==
    /\ NodesOf(db', g2) = NodesOf(db, g1)
    /\ EdgesOf(db', g2) = EdgesOf(db, g1)
    /\ NamesOf(db', g2) = IF name # None THEN {<<name, 1>>} ELSE NamesOf(db, g1)
    /\ NodesOf(db', g1) = NodesOf(db, g1)
    /\ EdgesOf(db', g1) = EdgesOf(db, g1)
    /\ NamesOf(db', g1) = NamesOf(db, g1)

\* C13 (copy correctness): erase_graph(g1, g2, name) with g2 given and
\* g1 # g2, as erase_main_graph(g) and save_main_graph(g) call it for a saved
\* graph g, leaves in g2 exactly the nodes with their coordinates and the
\* edges of g1, with the name given or else the name of g1, and leaves g1 as
\* it was; a g1 that holds nothing leaves g2 holding nothing.
C13_Copy ==
    [][resp'.route \in {"erase_main_graph", "save_main_graph"} =>
          \A g \in SavedIds, n \in Names \cup {None} :
              /\ Route_erase_main_graph(g, n) => CopyOf(g, 0, n)
              /\ Route_save_main_graph(g, n) => CopyOf(0, g, n)]_vars

\* graph 0 has just been erased with the saved graph 1, which has an edge, a
\* node that was moved and a name of its own
C13_Witness ==
    /\ resp.route = "erase_main_graph" /\ resp.body = "0"
    /\ EdgesOf(db, 1) # {}
    /\ \E q \in NodesOf(db, 1) : q[2] = 1
    /\ NamesOf(db, 1) = {<<"b", 1>>}
    /\ NodesOf(db, 0) = NodesOf(db, 1)
    /\ EdgesOf(db, 0) = EdgesOf(db, 1)

\* the request of the step, an edit, is answered False and the database is
\* as before
Refused ==
    /\ db' = db
    /\ resp'.route # "induced_subgraphs"
    /\ resp'.body \in {"false", "False"}

\* C14 (rejected edits): add_node of a stored node, add_edge with equal ids,
\* with an endpoint that is no stored node or of a stored edge (in either
\* orientation), remove_node, remove_edge and move_node of what is not
\* stored, save_main_name without a name, erase_main_graph(0) and
\* save_main_graph(0) are answered False and leave the database as it was.
C14_Rejected ==
    [][\/ Refused
       \/ /\ resp'.route = "add_node" => \A u \in StoredNodes(0) :
                Route_add_node(u, 0, 0) => Refused
          /\ resp'.route = "remove_node" => \A u \in NodeIds \ StoredNodes(0) :
                Route_remove_node(u) => Refused
          /\ resp'.route = "move_node" => \A u \in NodeIds \ StoredNodes(0) :
                Route_move_node(u, 0, 0) => Refused
          /\ resp'.route = "add_edge" => \A u, v \in NodeIds :
                ((\/ u = v
                  \/ ~({u, v} \subseteq StoredNodes(0))
                  \/ {u, v} \in StoredEdges(0)) /\ Route_add_edge(u, v)) => Refused
          /\ resp'.route = "remove_edge" => \A u, v \in NodeIds :
                ((u = v \/ {u, v} \notin StoredEdges(0)) /\ Route_remove_edge(u, v)) => Refused
          /\ resp'.route = "save_main_name" => (Route_save_main_name(None) => Refused)
          /\ resp'.route = "erase_main_graph" => \A n \in {None, "a"} :
                Route_erase_main_graph(0, n) => Refused
          /\ resp'.route = "save_main_graph" => \A n \in {None, "a"} :
                Route_save_main_graph(0, n) => Refused]_vars

\* an add_node has just been refused on a graph 0 that has an edge and a name
C14_Witness ==
    /\ resp.route = "add_node" /\ resp.body = "false"
    /\ StoredEdges(0) # {}
    /\ NamesOf(db, 0) # {}

\* the position of the first entry of the library for the graph id
LibraryPosition(id) == CHOOSE n \in DOMAIN db.iso :
    db.iso[n] = id /\ \A m \in 1..(n - 1) : db.iso[m] # id

\* C15 (output order): of two records of a response, the earlier one has a
\* witness pattern that does not come later in the library than the
\* witness pattern of the later one.
C15_Order ==
    Queried => \A i, j \in DOMAIN resp.body :
        i < j => LibraryPosition(resp.body[i].subgraph_id)
                    <= LibraryPosition(resp.body[j].subgraph_id)

\* the saved pattern 1 comes before graph 0 in the library and both are
\* witnesses of records
C15_Witness ==
    /\ Queried
    /\ db.iso = <<1, 0>>
    /\ \E i, j \in DOMAIN resp.body :
          /\ i < j
          /\ resp.body[i].subgraph_id = 1
          /\ resp.body[j].subgraph_id = 0

\* C16 (library membership is not copied): after erase_graph(g1, g2, name)
\* with g1 # g2, which erase_main_graph answers with "0" and save_main_graph
\* with the id g2, the library has no entry for g2, whether g1 or g2 had
\* one before, and g1 is in the library if and only if it was.
C16_NotCopied ==
    [][/\ (resp'.route = "erase_main_graph" /\ resp'.body = "0") =>
             /\ 0 \notin Range(db'.iso)
             /\ \A g \in SavedIds : (g \in Range(db'.iso)) <=> (g \in Range(db.iso))
       /\ resp'.route = "save_main_graph" => \A g \in SavedIds :
             resp'.body = ToString(g) =>
                 /\ g \notin Range(db'.iso)
                 /\ (0 \in Range(db'.iso)) <=> (0 \in Range(db.iso))]_vars

\* graph 0 has just been saved as graph 1 while graph 0 was in the library:
\* the copy has the nodes and no entry
C16_Witness ==
    /\ resp.route = "save_main_graph" /\ resp.body = "1"
    /\ 0 \in Range(db.iso)
    /\ 1 \notin Range(db.iso)
    /\ StoredNodes(1) # {}

\* C17 (removal from the library): after remove_iso(g) or delete_graph(g)
\* the library has no entry for g, however many it had; after
\* delete_graph(g) the graph g has no node, no edge and no name; a graph
\* that is not in the library enters it by add_iso only; and a query
\* answers no record whose witness is not in the library.
C17_Removal ==
    [][/\ resp'.route = "remove_iso" => \A g \in GraphIds :
             Route_remove_iso(g) => g \notin Range(db'.iso)
       /\ resp'.route = "delete_graph" => \A g \in GraphIds :
             Route_delete_graph(g) => (g \notin Range(db'.iso) /\ ~Known(db', g))
       /\ \A g \in GraphIds :
             (g \notin Range(db.iso) /\ g \in Range(db'.iso)) => Route_add_iso(g)
       /\ resp'.route = "induced_subgraphs" =>
             \A i \in DOMAIN resp'.body : resp'.body[i].subgraph_id \in Range(db'.iso)]_vars

\* a remove_iso has just left the saved graph 1 alone in the library, and a
\* graph 0 with nodes out of it
C17_Witness ==
    /\ resp.route = "remove_iso"
    /\ db.iso = <<1>>
    /\ StoredNodes(0) # {}
    /\ StoredNodes(1) # {}

\* what the graph h holds in the database d
Held(d, h) == <<NodesOf(d, h), EdgesOf(d, h), NamesOf(d, h), Cardinality(IsosOf(d, h))>>

\* the step changes nothing of the graphs other than g
Local(g) == \A h \in GraphIds \ {g} : Held(db', h) = Held(db, h)

\* C18 (edits are local): the edits of nodes and edges, which are edits of
\* graph 0, leave every other graph's nodes, edges, name and library entries
\* as they were; so does delete_graph(g) for the graphs other than g, and
\* erase_graph(g1, g2) for the graphs other than g2, which is graph 0 for
\* erase_main_graph and the graph of the id answered for save_main_graph.
C18_Local ==
    [][\/ db' = db
       \/ /\ resp'.route \in {"add_node", "add_edge", "remove_node", "remove_edge",
                              "move_node", "erase_main_graph"} => Local(0)
          /\ resp'.route = "delete_graph" => \A g \in GraphIds :
                Route_delete_graph(g) => Local(g)
          /\ resp'.route = "save_main_graph" =>
                \E g \in SavedIds : resp'.body = ToString(g) /\ Local(g)]_vars

\* a node of graph 0 that had an edge has just been removed, and the saved
\* graph 1, of the library, keeps its edge between nodes of the same ids
C18_Witness ==
    /\ resp.route = "remove_node" /\ resp.body = "true"
    /\ StoredEdges(0) = {}
    /\ StoredEdges(1) # {}
    /\ 1 \in Range(db.iso)
    /\ NamesOf(db, 1) # {}

\* C19 as stated (store invariants under concurrent edits): when no request
\* is being served, no node of graph 0 is stored twice, no edge of graph 0
\* is stored twice, and both endpoints of every edge of graph 0 are stored
\* nodes of graph 0.
C19_ConcurrentEdits_Stated ==
    NoRequest =>
        /\ \A n \in DOMAIN db.node : n.g_id = 0 => db.node[n] = 1
        /\ \A e \in DOMAIN db.edge : e.g_id = 0 =>
              /\ db.edge[e] = 1
              /\ {e.u_id, e.v_id} \subseteq StoredNodes(0)

\* C11 as stated (snapshot consistency): the list that a query returns has
\* the records that the query served alone returns on one of the databases
\* that there have been between its first step and its response.
C11_Snapshot_Stated ==
    [][\A t \in Threads : query_return(t) =>
          Records(resp'.body) \in req[t].held]_vars

\* C20 (termination): a query that is being served comes to its response,
\* whatever the edits served between its steps, and the response is a list,
\* with the status 200.
C20_Termination ==
    \A t \in Threads :
        (req[t].pc # "idle") ~> (req[t].pc = "idle" /\ Queried /\ resp.status = 200)

\* a query has gone through a library of two entries and has answered
\* records
C20_Witness ==
    /\ Queried /\ NoRequest
    /\ Len(db.iso) = 2
    /\ Len(resp.body) >= 2

====
